---- MODULE Spec2Model ----
(***************************************************************************)
(* Course Selection & Calendar Scheduling Engine of course-planner.        *)
(*                                                                         *)
(* The Selection Store (SelectedCoursesContext.tsx), its HTTP client       *)
(* (lib/api.ts), the identity source (AuthContext.tsx) and the calendar    *)
(* page with its Viewer Selector (app/calendar/page.tsx) are modelled as   *)
(* one state machine.  Every asynchronous operation of the browser is an   *)
(* element of the bag procs; its await points are the values of pc.  The   *)
(* remote                                                                  *)
(* persistence collaborator (the backend behind /api/courses/selected and  *)
(* the friend-courses endpoint) is modelled from the specification's       *)
(* interface section.                                                      *)
(***************************************************************************)
EXTENDS Integers, Sequences, FiniteSets, Bags, TLC

\* ------------------------------------------------------------------ bounds
\* Number of user-interface triggers (auth events, add, remove, viewer
\* changes, friend edits) in one behaviour.
MaxOps == 2

\* ------------------------------------------------------------- the universe
Users == {"u1", "u2"}
NoUser == "none"
Friends == {"f1", "f2"}
Me == "me"
Courses == {"c1", "c2"}
SectionIndexes == {0, 1}
\* removeCourse(courseId, sectionIndex?) with the index left out
Omitted == -1
NoCourse == "-"

\* Text is a sequence of characters.
Sp == <<" ">>

Dash == <<"-">>

\* An endpoint "H:MM" followed by its meridiem, and a range of two endpoints.
Clock(h, m, mer) == h \o <<":">> \o m \o mer

Range(a, sep, b) == a \o sep \o b

\* section.days that is missing (null / undefined) in the stored data: a value
\* no list of tokens equals
NoDays == <<"(missing)">>

\* A TimeSlot, reduced to the two fields the calendar reads.
TimeSlot(time, days) == [time |-> time, days |-> days]

\* The catalogue: the TimeSlot a search result carries for each section.
SectionData(c, i) ==
    IF c = "c1" /\ i = 0
    THEN TimeSlot(Range(Clock(<<"1", "1">>, <<"4", "0">>, <<"a", "m">>),
                        Sp \o Dash \o Sp,
                        Clock(<<"1", "2">>, <<"5", "5">>, <<"p", "m">>)),
                  <<"M", "W">>)
    ELSE IF c = "c1"
    THEN TimeSlot(Range(Clock(<<"2">>, <<"4", "0">>, <<"p", "m">>),
                        Sp \o Dash \o Sp,
                        Clock(<<"3">>, <<"5", "5">>, <<"p", "m">>)),
                  <<"Tu", "Th">>)
    ELSE IF i = 0
    THEN TimeSlot(Range(Clock(<<"1", "0">>, <<"1", "0">>, <<"a", "m">>),
                        Sp \o Dash \o Sp,
                        Clock(<<"1", "2">>, <<"4", "0">>, <<"p", "m">>)),
                  <<"F">>)
    ELSE TimeSlot(<<"T", "B", "A">>, <<>>)

\* A SelectedCourse: its identity key and its section_data.
Rec(u, c, i) ==
    [user_id |-> u, course_id |-> c, section_index |-> i,
     section_data |-> SectionData(c, i)]

\* ---------------------------------------------- the remote collaborator
\* fetchSelections(userId): all current selections of one user.
Fetch(store, u) == SelectSeq(store, LAMBDA r : r.user_id = u)

Exists(store, u, c, i) ==
    \E k \in 1..Len(store) :
        /\ store[k].user_id = u
        /\ store[k].course_id = c
        /\ store[k].section_index = i

\* createSelection: appends the record (the caller has checked Exists).
Create(store, u, c, i) == Append(store, Rec(u, c, i))

\* deleteSelection(userId, courseId, sectionIndex?): one record, or all the
\* records of the course when the index is omitted; nothing matching is no error.
Delete(store, u, c, idx) ==
    SelectSeq(store, LAMBDA r : ~(/\ r.user_id = u
                                  /\ r.course_id = c
                                  /\ (idx = Omitted \/ r.section_index = idx)))

\* ------------------------------------------------------------------ state
VARIABLES
    user,               \* AuthContext: user (its id) or NoUser
    remote,             \* the backend's selected-courses table
    friendRemote,       \* the backend's selections of each friend
    selectedCourses,    \* SelectedCoursesProvider state
    isLoading,          \* SelectedCoursesProvider state
    highlightedCourseId,\* SelectedCoursesProvider state
    selectedViewer,     \* CalendarPage state
    friendCourses,      \* CalendarPage state
    isLoadingCourses,   \* CalendarPage state
    procs,              \* the asynchronous operations in flight
    lastResult,         \* what the caller of the last completed operation saw
    ops,                \* user-interface triggers so far
    clean,              \* history: no request has failed, no auth event has occurred
    hist                \* history: two equal removes, one after the other, alone

vars == <<user, remote, friendRemote, selectedCourses, isLoading,
          highlightedCourseId, selectedViewer, friendCourses,
          isLoadingCourses, procs, lastResult, ops, clean, hist>>

Idle == [kind |-> "idle", pc |-> "idle", uid |-> NoUser, cid |-> NoCourse,
         idx |-> Omitted, res |-> "-", snap |-> <<>>]

NoResult == [op |-> "none", res |-> "-", logged |-> ""]

NoHist == [stage |-> "none", cid |-> NoCourse, idx |-> Omitted,
           remote |-> <<>>, list |-> <<>>, res |-> "-"]

\* An operation starts, moves to its next await point, or ends.
Spawn(ps, p) == ps (+) SetToBag({p})

Finish(ps, p) == ps (-) SetToBag({p})

Step(ps, p, q) == (ps (-) SetToBag({p})) (+) SetToBag({q})

InFlight == BagToSet(procs)

\* What the backend may hold when the page is opened: selections made in
\* earlier sessions.
InitialRemotes ==
    { <<>>,
      <<Rec("u1", "c1", 0), Rec("u2", "c1", 0), Rec("u1", "c1", 1)>> }

InitialFriendRemotes ==
    { [f \in Friends |-> <<>>],
      [f \in Friends |-> <<Rec(f, "c1", 0)>>] }

\* The providers and the calendar page are mounted and their mount effects have
\* run: either nobody is signed in, or the session of a user was restored and
\* the load of that user's selections has completed.
Mounted(remotes, friendRemotes) ==
    /\ user \in {NoUser, "u1"}
    /\ remote \in remotes
    /\ friendRemote \in friendRemotes
    /\ selectedCourses = IF user = NoUser THEN <<>> ELSE Fetch(remote, user)
    /\ isLoading = FALSE
    /\ highlightedCourseId = NoCourse
    /\ selectedViewer = Me
    /\ friendCourses = <<>>
    /\ isLoadingCourses = FALSE
    /\ procs = EmptyBag
    /\ lastResult = NoResult
    /\ ops = 0
    /\ clean = TRUE
    /\ hist = NoHist

Init == Mounted(InitialRemotes, {[f \in Friends |-> <<>>]})

InitViewer ==
    Mounted({<<Rec("u1", "c1", 0), Rec("u2", "c1", 0), Rec("u1", "c1", 1)>>},
            InitialFriendRemotes)

\* ------------------------------------------------ lib/api.ts, the client
\* section_data of a row of the response when it is a string: the JSON text
\* of a value, or a text that is not JSON.
JsonText(value) == [json |-> value]

NotJson == [malformed |-> TRUE]

\* typeof course.section_data === 'string'
IsString(data) == "json" \in DOMAIN data

\* JSON.parse(text) throws a SyntaxError
JsonParseThrows(text) == text.json = NotJson

\* JSON.parse(text)
JsonParse(text) == text.json

\* getSelectedCourses throws while it maps the rows of a response that was ok.
getSelectedCoursesThrows(rows) ==
    \E k \in 1..Len(rows) :
        IsString(rows[k].section_data) /\ JsonParseThrows(rows[k].section_data)

\* getSelectedCourses: the rows of a response that was ok, as the list the
\* store receives: section_data that is a string is parsed, other section_data
\* is passed on.
getSelectedCourses(rows) ==
    [k \in 1..Len(rows) |->
        [rows[k] EXCEPT !.section_data =
            IF IsString(@) THEN JsonParse(@) ELSE @]]

\* Variant of addSelectedCourse without the check of response.ok.
addSelectedCourseUnchecked(answer) == "ok"

\* addSelectedCourse: what the promise settles to for a server answer: the
\* parsed body when the response is ok, else a rejection carrying the
\* answer's error text.
addSelectedCourse(answer) ==
    IF answer = "ok" THEN "ok"
    ELSE IF answer = "DuplicateSelection" THEN "DuplicateSelection"
    ELSE "TransientIO"

\* Variant of removeSelectedCourse without the check of response.ok.
removeSelectedCourseUnchecked(answer) == "ok"

\* removeSelectedCourse: resolves when the response is ok, else rejects with
\* 'Failed to remove selected course'.
removeSelectedCourse(answer) == IF answer = "ok" THEN "ok" ELSE "TransientIO"

\* ------------------------------------- SelectedCoursesContext.tsx, the store
\* Variants of setSelectedCourses(courses): the snapshot is appended to the list;
\* an empty snapshot is ignored.
MergeSelectedCourses(old, courses) == old \o courses

SkipEmptySnapshot(old, courses) == IF courses = <<>> THEN old ELSE courses

\* setSelectedCourses(courses) in refreshCourses: the snapshot replaces the list.
SetSelectedCourses(old, courses) == courses

\* The catch branch of refreshCourses: console.error only.
KeepSelectedCourses(old) == old

\* Variant of addCourse that appends the new record locally before the reload.
AppendAfterCreate(old, rec) == Append(old, rec)

\* addCourse between the create and the reload: the list is not touched.
ListAfterCreate(old, rec) == old

\* Variant of removeCourse that throws for a record the list does not show.
RejectUnselected(u, list, c, idx) ==
    IF u = NoUser THEN "return"
    ELSE IF \E k \in 1..Len(list) :
               /\ list[k].course_id = c
               /\ (idx = Omitted \/ list[k].section_index = idx)
    THEN "send"
    ELSE "NotSelected"

\* removeCourse, its first statement: if (!user) return; else the DELETE is sent.
RemoveCourseEntry(u, list, c, idx) == IF u = NoUser THEN "return" ELSE "send"

\* Variant of refreshCourses whose catch branch throws the error again.
RefreshRejects(answer) == answer

\* What the caller of refreshCourses() gets when the GET failed: the catch
\* branch logs, the promise resolves.
RefreshSettles(answer) == "resolved"

LoadProc(u) == [Idle EXCEPT !.kind = "load", !.pc = "fetching", !.uid = u]

FriendProc(u, f) ==
    [Idle EXCEPT !.kind = "friend", !.pc = "fetching", !.uid = u, !.cid = f]

\* Variant of removeSelectedCourse that leaves section_index out of the body.
RemoveProcAllSections(u, c, idx) ==
    [Idle EXCEPT !.kind = "remove", !.pc = "deleting", !.uid = u, !.cid = c]

\* removeSelectedCourse(user.id, courseId, sectionIndex): the DELETE with the
\* body {user_id, course_id, section_index}, in flight.
RemoveProc(u, c, idx) ==
    [Idle EXCEPT !.kind = "remove", !.pc = "deleting", !.uid = u, !.cid = c,
                 !.idx = idx]

\* History of two equal removes in a row: a remove that starts while nothing is
\* in flight opens it, its completion records the state, an equal remove that
\* follows at once is the second call, and its completion records what the
\* caller saw.  Anything else that starts, and any request that fails, ends it.
HistOnRemove(c, idx, entry) ==
    IF user = NoUser \/ procs # EmptyBag THEN NoHist
    ELSE IF hist.stage = "after1" /\ hist.cid = c /\ hist.idx = idx
    THEN IF entry = "send" THEN [hist EXCEPT !.stage = "second"]
         ELSE [hist EXCEPT !.stage = "after2", !.res = entry]
    ELSE IF entry = "send"
    THEN [NoHist EXCEPT !.stage = "first", !.cid = c, !.idx = idx]
    ELSE NoHist

HistOnSettle(p, res, store, list) ==
    IF p.kind # "remove" THEN hist
    ELSE IF hist.stage = "first"
    THEN [hist EXCEPT !.stage = "after1", !.remote = store, !.list = list]
    ELSE IF hist.stage = "second"
    THEN [hist EXCEPT !.stage = "after2", !.res = res]
    ELSE hist

\* The two effects that depend on user, run for the identity u: refreshCourses()
\* of the store and fetchViewerCourses() of the calendar page, each up to its
\* first await.
IdentityEffects(u) ==
    LET needLoad == u # NoUser
        needFriend == u # NoUser /\ selectedViewer # Me
        p1 == IF needLoad THEN Spawn(procs, LoadProc(u)) ELSE procs
    IN  /\ user' = u
        /\ selectedCourses' = IF needLoad THEN selectedCourses ELSE <<>>
        /\ isLoading' = needLoad
        /\ friendCourses' = IF needFriend THEN friendCourses ELSE <<>>
        /\ isLoadingCourses' = IF needFriend THEN TRUE ELSE isLoadingCourses
        /\ procs' = IF needFriend THEN Spawn(p1, FriendProc(u, selectedViewer))
                    ELSE p1

\* AuthContext: onAuthStateChange delivers a session of user u (sign-in, or a
\* refreshed session of the same user: a new user object either way).
AuthStateChange(u) ==
    /\ ops < MaxOps
    /\ IdentityEffects(u)
    /\ ops' = ops + 1
    /\ clean' = FALSE
    /\ hist' = NoHist
    /\ UNCHANGED <<remote, friendRemote, highlightedCourseId, selectedViewer,
                   lastResult>>

\* AuthContext.signOut: setUser(null).
SignOut ==
    /\ ops < MaxOps
    /\ user # NoUser
    /\ IdentityEffects(NoUser)
    /\ ops' = ops + 1
    /\ clean' = FALSE
    /\ hist' = NoHist
    /\ UNCHANGED <<remote, friendRemote, highlightedCourseId, selectedViewer,
                   lastResult>>

\* The backend answers a GET /api/courses/selected?user_id=uid.
ServerFetch(p) ==
    /\ p.pc = "fetching"
    /\ p.kind \in {"load", "add", "remove"}
    /\ \/ /\ procs' = Step(procs, p, [p EXCEPT !.pc = "fetched", !.res = "ok",
                                               !.snap = Fetch(remote, p.uid)])
          /\ UNCHANGED <<clean, hist>>
       \/ /\ procs' = Step(procs, p, [p EXCEPT !.pc = "fetched",
                                               !.res = "TransientIO"])
          /\ clean' = FALSE
          /\ hist' = NoHist
    /\ UNCHANGED <<user, remote, friendRemote, selectedCourses, isLoading,
                   highlightedCourseId, selectedViewer, friendCourses,
                   isLoadingCourses, lastResult, ops>>

\* refreshCourses after its await: try / catch / finally.
RefreshDeliver(p) ==
    /\ p.pc = "fetched"
    /\ p.kind \in {"load", "add", "remove"}
    /\ LET thrown == IF p.res # "ok" THEN p.res
                      ELSE IF getSelectedCoursesThrows(p.snap) THEN "SyntaxError"
                      ELSE ""
       IN  /\ selectedCourses' =
                 IF thrown = ""
                 THEN SetSelectedCourses(selectedCourses,
                                         getSelectedCourses(p.snap))
                 ELSE KeepSelectedCourses(selectedCourses)
           /\ lastResult' = [op |-> p.kind,
                             res |-> IF thrown = "" THEN "resolved"
                                     ELSE RefreshSettles(thrown),
                             logged |-> IF thrown = "" THEN ""
                                        ELSE "Failed to fetch selected courses:"]
    /\ isLoading' = FALSE
    /\ procs' = Finish(procs, p)
    /\ hist' = HistOnSettle(p, lastResult'.res, remote, selectedCourses')
    /\ UNCHANGED <<user, remote, friendRemote, highlightedCourseId,
                   selectedViewer, friendCourses, isLoadingCourses, ops, clean>>

\* addCourse up to its first await.
\* Variant of addCourse's first statement without the check of the user.
AddCourseEntryUnguarded(u) == "send"

\* addCourse, its first statement: if (!user) return; else the POST is sent.
AddCourseEntry(u) == IF u = NoUser THEN "return" ELSE "send"

AddCourse(c, i) ==
    /\ ops < MaxOps
    /\ ops' = ops + 1
    /\ IF AddCourseEntry(user) = "return"
       THEN /\ lastResult' = [op |-> "add", res |-> "resolved", logged |-> ""]
            /\ UNCHANGED procs
       ELSE /\ procs' = Spawn(procs, [Idle EXCEPT !.kind = "add", !.pc = "creating",
                                                  !.uid = user, !.cid = c, !.idx = i])
            /\ UNCHANGED lastResult
    /\ hist' = NoHist
    /\ UNCHANGED <<user, remote, friendRemote, selectedCourses, isLoading,
                   highlightedCourseId, selectedViewer, friendCourses,
                   isLoadingCourses, clean>>

\* The backend answers a POST /api/courses/selected.
ServerCreate(p) ==
    /\ p.pc = "creating"
    /\ \/ /\ ~Exists(remote, p.uid, p.cid, p.idx)
          /\ remote' = Create(remote, p.uid, p.cid, p.idx)
          /\ procs' = Step(procs, p, [p EXCEPT !.pc = "created", !.res = "ok"])
          /\ UNCHANGED clean
       \/ /\ Exists(remote, p.uid, p.cid, p.idx)
          /\ procs' = Step(procs, p, [p EXCEPT !.pc = "created",
                                               !.res = "DuplicateSelection"])
          /\ clean' = FALSE
          /\ UNCHANGED remote
       \/ /\ procs' = Step(procs, p, [p EXCEPT !.pc = "created",
                                               !.res = "TransientIO"])
          /\ clean' = FALSE
          /\ UNCHANGED remote
    /\ UNCHANGED <<user, friendRemote, selectedCourses, isLoading,
                   highlightedCourseId, selectedViewer, friendCourses,
                   isLoadingCourses, lastResult, ops, hist>>

\* addCourse after await addSelectedCourse(...): on success refreshCourses() is
\* entered (setIsLoading(true), the GET is sent); on failure the error is logged
\* and thrown again.
AddResponse(p) ==
    /\ p.pc = "created"
    /\ IF addSelectedCourse(p.res) = "ok"
       THEN /\ isLoading' = TRUE
            /\ selectedCourses' =
                  ListAfterCreate(selectedCourses, Rec(p.uid, p.cid, p.idx))
            /\ procs' = Step(procs, p, [p EXCEPT !.pc = "fetching"])
            /\ UNCHANGED lastResult
       ELSE /\ lastResult' = [op |-> "add",
                              res |-> addSelectedCourse(p.res),
                              logged |-> "Failed to add course:"]
            /\ procs' = Finish(procs, p)
            /\ UNCHANGED <<isLoading, selectedCourses>>
    /\ UNCHANGED <<user, remote, friendRemote, highlightedCourseId,
                   selectedViewer, friendCourses, isLoadingCourses, ops, clean,
                   hist>>

\* removeCourse up to its first await.
RemoveCourse(c, idx) ==
    /\ ops < MaxOps
    /\ ops' = ops + 1
    /\ LET entry == RemoveCourseEntry(user, selectedCourses, c, idx)
       IN  /\ IF entry = "send"
              THEN /\ procs' = Spawn(procs, RemoveProc(user, c, idx))
                   /\ UNCHANGED lastResult
              ELSE /\ lastResult' =
                         [op |-> "remove",
                          res |-> IF entry = "return" THEN "resolved" ELSE entry,
                          logged |-> ""]
                   /\ UNCHANGED procs
           /\ hist' = HistOnRemove(c, idx, entry)
    /\ UNCHANGED <<user, remote, friendRemote, selectedCourses, isLoading,
                   highlightedCourseId, selectedViewer, friendCourses,
                   isLoadingCourses, clean>>

\* The backend answers a DELETE /api/courses/selected.
ServerDelete(p) ==
    /\ p.pc = "deleting"
    /\ \/ /\ remote' = Delete(remote, p.uid, p.cid, p.idx)
          /\ procs' = Step(procs, p, [p EXCEPT !.pc = "deleted", !.res = "ok"])
          /\ UNCHANGED <<clean, hist>>
       \/ /\ procs' = Step(procs, p, [p EXCEPT !.pc = "deleted",
                                               !.res = "TransientIO"])
          /\ clean' = FALSE
          /\ hist' = NoHist
          /\ UNCHANGED remote
    /\ UNCHANGED <<user, friendRemote, selectedCourses, isLoading,
                   highlightedCourseId, selectedViewer, friendCourses,
                   isLoadingCourses, lastResult, ops>>

\* removeCourse after await removeSelectedCourse(...).
RemoveResponse(p) ==
    /\ p.pc = "deleted"
    /\ IF removeSelectedCourse(p.res) = "ok"
       THEN /\ isLoading' = TRUE
            /\ procs' = Step(procs, p, [p EXCEPT !.pc = "fetching"])
            /\ UNCHANGED <<lastResult, hist>>
       ELSE /\ lastResult' = [op |-> "remove",
                              res |-> removeSelectedCourse(p.res),
                              logged |-> "Failed to remove course:"]
            /\ procs' = Finish(procs, p)
            /\ hist' = HistOnSettle(p, lastResult'.res, remote, selectedCourses)
            /\ UNCHANGED isLoading
    /\ UNCHANGED <<user, remote, friendRemote, selectedCourses,
                   highlightedCourseId, selectedViewer, friendCourses,
                   isLoadingCourses, ops, clean>>

\* setHighlightedCourseId(course.course_id), from a click on a card of the panel.
SetHighlightedCourseId(c) ==
    /\ \E k \in 1..Len(selectedCourses) : selectedCourses[k].course_id = c
    /\ highlightedCourseId # c
    /\ highlightedCourseId' = c
    /\ UNCHANGED <<user, remote, friendRemote, selectedCourses, isLoading,
                   selectedViewer, friendCourses, isLoadingCourses, procs,
                   lastResult, ops, clean, hist>>

\* ------------------------------------------- the calendar page (Viewer Selector)
\* Variant of displayCourses that shows the friend's courses on top of the user's.
MergedDisplayCourses == selectedCourses \o friendCourses

\* const displayCourses = selectedViewer === 'me' ? selectedCourses : friendCourses
displayCourses == IF selectedViewer = Me THEN selectedCourses ELSE friendCourses

isViewingFriend == selectedViewer # Me

\* The status beside the viewer select: "Loading..." while isLoadingCourses, the
\* badge "Friend's Schedule" when isViewingFriend && !isLoadingCourses.
viewerStatus ==
    IF isLoadingCourses THEN "Loading..."
    ELSE IF isViewingFriend THEN "Friend's Schedule"
    ELSE ""

\* setFriendCourses(courses) after a fetch that succeeded.
SetFriendCourses(old, courses) == courses

\* The viewer <select> changes: setSelectedViewer(v), then the effect
\* fetchViewerCourses runs up to its await.  The <select> is rendered only for a
\* signed-in user.
SelectViewer(v) ==
    /\ ops < MaxOps
    /\ ops' = ops + 1
    /\ user # NoUser
    /\ v # selectedViewer
    /\ selectedViewer' = v
    /\ IF v = Me
       THEN /\ friendCourses' = <<>>
            /\ UNCHANGED <<isLoadingCourses, procs>>
       ELSE /\ isLoadingCourses' = TRUE
            /\ procs' = Spawn(procs, FriendProc(user, v))
            /\ UNCHANGED friendCourses
    /\ hist' = NoHist
    /\ UNCHANGED <<user, remote, friendRemote, selectedCourses, isLoading,
                   highlightedCourseId, lastResult, clean>>

\* The backend answers the friend-courses request.
ServerFetchFriend(p) ==
    /\ p.pc = "fetching"
    /\ p.kind = "friend"
    /\ \/ procs' = Step(procs, p, [p EXCEPT !.pc = "fetched", !.res = "ok",
                                            !.snap = friendRemote[p.cid]])
       \/ procs' = Step(procs, p, [p EXCEPT !.pc = "fetched",
                                            !.res = "TransientIO"])
    /\ UNCHANGED <<user, remote, friendRemote, selectedCourses, isLoading,
                   highlightedCourseId, selectedViewer, friendCourses,
                   isLoadingCourses, lastResult, ops, clean, hist>>

\* fetchViewerCourses after its await: try / catch / finally.
FriendDeliver(p) ==
    /\ p.pc = "fetched"
    /\ p.kind = "friend"
    /\ friendCourses' = IF p.res = "ok"
                        THEN SetFriendCourses(friendCourses, p.snap)
                        ELSE <<>>
    /\ isLoadingCourses' = FALSE
    /\ lastResult' = [op |-> "friend", res |-> "resolved",
                      logged |-> IF p.res = "ok" THEN ""
                                 ELSE "Failed to fetch friend courses:"]
    /\ procs' = Finish(procs, p)
    /\ UNCHANGED <<user, remote, friendRemote, selectedCourses, isLoading,
                   highlightedCourseId, selectedViewer, ops, clean, hist>>

\* ------------------------------------------------ the calendar projection
DAYS == <<"SUN", "MON", "TUE", "WED", "THU", "FRI", "SAT">>

\* HOURS starts at 7 (7 AM); the overlay subtracts the same 7.
GridStartHour == 7

DAY_MAP ==
    [tok \in {"Su", "Sunday"} |-> "SUN"] @@
    [tok \in {"M", "Mo", "Monday"} |-> "MON"] @@
    [tok \in {"T", "Tu", "Tuesday"} |-> "TUE"] @@
    [tok \in {"W", "We", "Wednesday"} |-> "WED"] @@
    [tok \in {"Th", "R", "Thursday"} |-> "THU"] @@
    [tok \in {"F", "Fr", "Friday"} |-> "FRI"] @@
    [tok \in {"Sa", "S", "Saturday"} |-> "SAT"]

DigitChars == <<"0", "1", "2", "3", "4", "5", "6", "7", "8", "9">>

IsDigit(ch) == \E d \in 1..10 : DigitChars[d] = ch

DigitValue(ch) == (CHOOSE d \in 1..10 : DigitChars[d] = ch) - 1

\* The character at position i, "" past the end.
At(t, i) == IF i \in 1..Len(t) THEN t[i] ELSE ""

\* toLowerCase() on the letters of a meridiem (the regex has the i flag)
Lower(ch) ==
    IF ch = "A" THEN "a" ELSE IF ch = "P" THEN "p" ELSE IF ch = "M" THEN "m"
    ELSE ch

\* \s* from position i: the position of the first character that is not a space
RECURSIVE SkipSpace(_, _)
SkipSpace(t, i) == IF At(t, i) = " " THEN SkipSpace(t, i + 1) ELSE i

NoEndpoint == [ok |-> FALSE, hour |-> 0, minute |-> 0, period |-> "", next |-> 0]

\* (\d{1,2}):(\d{2})\s*(am|pm) matched at position i, with parseInt of the
\* two groups and the lower-cased meridiem.
EndpointAt(t, i) ==
    LET hl == IF IsDigit(At(t, i + 1)) THEN 2 ELSE 1
        c == i + hl
        j == SkipSpace(t, c + 3)
    IN  IF /\ IsDigit(At(t, i))
           /\ At(t, c) = ":"
           /\ IsDigit(At(t, c + 1))
           /\ IsDigit(At(t, c + 2))
           /\ Lower(At(t, j)) \in {"a", "p"}
           /\ Lower(At(t, j + 1)) = "m"
        THEN [ok |-> TRUE,
              hour |-> IF hl = 2
                       THEN 10 * DigitValue(At(t, i)) + DigitValue(At(t, i + 1))
                       ELSE DigitValue(At(t, i)),
              minute |-> 10 * DigitValue(At(t, c + 1)) + DigitValue(At(t, c + 2)),
              period |-> IF Lower(At(t, j)) = "a" THEN "am" ELSE "pm",
              next |-> j + 2]
        ELSE NoEndpoint

\* The whole pattern matched at position i: endpoint \s*-\s* endpoint.
MatchAt(t, i) ==
    LET a == EndpointAt(t, i)
        k == SkipSpace(t, a.next)
        b == EndpointAt(t, SkipSpace(t, k + 1))
    IN  IF a.ok /\ At(t, k) = "-" /\ b.ok
        THEN [ok |-> TRUE, start |-> a, end |-> b]
        ELSE [ok |-> FALSE, start |-> a, end |-> NoEndpoint]

\* parseTime returns null
NoTime == [null |-> TRUE]

\* Variant of To24 without the pm rule.
To24NoPm(hour, period) == IF period = "am" /\ hour = 12 THEN 0 ELSE hour

\* The conversion to 24-hour time in parseTime.
To24(hour, period) ==
    IF period = "pm" /\ hour # 12 THEN hour + 12
    ELSE IF period = "am" /\ hour = 12 THEN 0
    ELSE hour

\* parseTime(timeStr): the leftmost match of the pattern, converted.
parseTime(timeStr) ==
    LET starts == {i \in 1..Len(timeStr) : MatchAt(timeStr, i).ok}
    IN  IF starts = {} THEN NoTime
        ELSE LET m == MatchAt(timeStr,
                              CHOOSE i \in starts : \A j \in starts : i <= j)
             IN  [startHour |-> To24(m.start.hour, m.start.period),
                  startMinute |-> m.start.minute,
                  endHour |-> To24(m.end.hour, m.end.period),
                  endMinute |-> m.end.minute]

\* DAY_MAP is an object literal: a key it does not define is looked up in
\* Object.prototype, whose members are functions (truthy, not day names).
ObjectPrototypeKeys == {"constructor", "toString"}

Undefined == "undefined"

InheritedMember == "function"

\* DAY_MAP[day]
DayLookup(day) ==
    IF day \in DOMAIN DAY_MAP THEN DAY_MAP[day]
    ELSE IF day \in ObjectPrototypeKeys THEN InheritedMember
    ELSE Undefined

\* parseDays(daysArray): the value of every token whose lookup is truthy, in
\* the order of the tokens; the other tokens are skipped.
RECURSIVE parseDays(_)
parseDays(daysArray) ==
    IF daysArray = <<>> THEN <<>>
    ELSE (IF DayLookup(Head(daysArray)) # Undefined
          THEN <<DayLookup(Head(daysArray))>> ELSE <<>>)
         \o parseDays(Tail(daysArray))

\* The body of the loop of events, for one course.
CourseEvents(course) ==
    LET section == course.section_data
    IN  IF section.time = <<>> \/ section.days = NoDays THEN <<>>
        ELSE LET timeInfo == parseTime(section.time)
                 days == parseDays(section.days)
             IN  IF timeInfo = NoTime THEN <<>>
                 ELSE [k \in 1..Len(days) |->
                         [course |-> course, day |-> days[k],
                          startHour |-> timeInfo.startHour,
                          startMinute |-> timeInfo.startMinute,
                          endHour |-> timeInfo.endHour,
                          endMinute |-> timeInfo.endMinute]]

RECURSIVE EventsOf(_)
EventsOf(courses) ==
    IF courses = <<>> THEN <<>>
    ELSE CourseEvents(Head(courses)) \o EventsOf(Tail(courses))

\* const events = useMemo(..., [displayCourses])
events == EventsOf(displayCourses)

\* DAYS.indexOf(day), from 0; -1 when day is not in DAYS
DayIndex(day) ==
    IF \E k \in 1..Len(DAYS) : DAYS[k] = day
    THEN (CHOOSE k \in 1..Len(DAYS) : DAYS[k] = day) - 1
    ELSE 0 - 1

\* Variant of EventBox that places the start from midnight.
EventBoxFromMidnight(event) ==
    [course |-> event.course, day |-> event.day,
     dayIndex |-> DayIndex(event.day),
     startOffset |-> event.startHour * 60 + event.startMinute,
     duration |-> (event.endHour * 60 + event.endMinute)
                  - (event.startHour * 60 + event.startMinute)]

\* The events overlay: the box drawn for one event (top = startOffset px,
\* height = duration px).
EventBox(event) ==
    LET startOffset == (event.startHour - GridStartHour) * 60 + event.startMinute
        endOffset == (event.endHour - GridStartHour) * 60 + event.endMinute
    IN  [course |-> event.course, day |-> event.day,
         dayIndex |-> DayIndex(event.day),
         startOffset |-> startOffset,
         duration |-> endOffset - startOffset]

\* if (dayIndex === -1) return null
Drawn(event) == DayIndex(event.day) >= 0

\* events.map(...) in the overlay: one box per event that is drawn, in the
\* order of the events.
RECURSIVE BoxesFor(_)
BoxesFor(list) ==
    IF list = <<>> THEN <<>>
    ELSE (IF Drawn(Head(list)) THEN <<EventBox(Head(list))>> ELSE <<>>)
         \o BoxesFor(Tail(list))

\* The events overlay: the boxes of the events that are drawn.
overlay == BoxesFor(events)

\* The overlay holds a box of course c to click on: a displayed course with
\* that id has an event that is drawn.
Clickable(c) ==
    \E n \in 1..Len(displayCourses) :
        /\ displayCourses[n].course_id = c
        /\ BoxesFor(CourseEvents(displayCourses[n])) # <<>>

\* Variant of handleEventClick that also reloads the store.
HandleEventClickReloads(c) ==
    /\ highlightedCourseId # c
    /\ Clickable(c)
    /\ highlightedCourseId' = c
    /\ isLoading' = TRUE
    /\ procs' = Spawn(procs, LoadProc(user))
    /\ UNCHANGED <<user, remote, friendRemote, selectedCourses, selectedViewer,
                   friendCourses, isLoadingCourses, lastResult, ops, clean, hist>>

\* handleEventClick(course), from a click on an event of the grid.
HandleEventClick(c) ==
    /\ highlightedCourseId # c
    /\ Clickable(c)
    /\ highlightedCourseId' = c
    /\ UNCHANGED <<user, remote, friendRemote, selectedCourses, isLoading,
                   selectedViewer, friendCourses, isLoadingCourses, procs,
                   lastResult, ops, clean, hist>>

\* A friend changes their own schedule (on their own device).
FriendEdits(f) ==
    /\ ops < MaxOps
    /\ ops' = ops + 1
    /\ friendRemote' = [friendRemote EXCEPT
                          ![f] = IF friendRemote[f] = <<>>
                                 THEN <<Rec(f, "c1", 0)>> ELSE <<>>]
    /\ UNCHANGED <<user, remote, selectedCourses, isLoading, highlightedCourseId,
                   selectedViewer, friendCourses, isLoadingCourses, procs,
                   lastResult, clean, hist>>

\* The actions of the browser and of the backend that concern the store.
StoreNext ==
    \/ \E u \in Users : AuthStateChange(u)
    \/ SignOut
    \/ \E c \in Courses, idx \in SectionIndexes \cup {Omitted} : RemoveCourse(c, idx)
    \/ \E c \in Courses, i \in SectionIndexes : AddCourse(c, i)
    \/ \E c \in Courses : SetHighlightedCourseId(c)
    \/ \E p \in InFlight : ServerFetch(p)
    \/ \E p \in InFlight : RefreshDeliver(p)
    \/ \E p \in InFlight : ServerCreate(p)
    \/ \E p \in InFlight : AddResponse(p)
    \/ \E p \in InFlight : ServerDelete(p)
    \/ \E p \in InFlight : RemoveResponse(p)

\* The store alone: the viewer stays on "me".
Spec == Init /\ [][StoreNext]_vars

SameRow(a, b) ==
    /\ a.user_id = b.user_id
    /\ a.course_id = b.course_id
    /\ a.section_index = b.section_index

\* A selection as the backend sends it with section_data as JSON text, and one
\* whose section_data text is not JSON.
StoredRec(u, c, i) == [Rec(u, c, i) EXCEPT !.section_data = JsonText(@)]

BrokenRec(u, c, i) == [Rec(u, c, i) EXCEPT !.section_data = JsonText(NotJson)]

StoredRows(u) ==
    {StoredRec(u, c, i) : c \in Courses, i \in SectionIndexes}
    \cup {BrokenRec(u, c, i) : c \in Courses, i \in SectionIndexes}
    \cup {Rec(u, "c1", 0)}

StoredRemotes ==
    {<<a, b>> : a \in StoredRows("u1"), b \in StoredRows("u1") \cup StoredRows("u2")}
    \ {<<a, b>> \in StoredRows("u1") \X StoredRows("u1") : SameRow(a, b)}

\* The provider is mounted with nobody signed in, and the backend holds
\* selections of earlier sessions with section_data stored as text.
InitStored ==
    /\ user = NoUser
    /\ Mounted(StoredRemotes, {[f \in Friends |-> <<>>]})

\* The store over selections stored as text.
SpecStored == InitStored /\ [][StoreNext]_vars

\* The calendar page: the Viewer Selector beside the store, with the panel's
\* Remove button as the store's mutation.
ViewerNext ==
    \/ \E u \in Users : AuthStateChange(u)
    \/ SignOut
    \/ \E c \in Courses, idx \in SectionIndexes : RemoveCourse(c, idx)
    \/ \E v \in {Me} \cup Friends : SelectViewer(v)
    \/ \E c \in Courses : HandleEventClick(c)
    \/ \E f \in Friends : FriendEdits(f)
    \/ \E p \in InFlight : ServerFetch(p)
    \/ \E p \in InFlight : RefreshDeliver(p)
    \/ \E p \in InFlight : ServerDelete(p)
    \/ \E p \in InFlight : RemoveResponse(p)
    \/ \E p \in InFlight : ServerFetchFriend(p)
    \/ \E p \in InFlight : FriendDeliver(p)

SpecViewer == InitViewer /\ [][ViewerNext]_vars

\* The continuation of an await whose promise has settled: the event loop runs
\* it.
Continuation ==
    \E p \in InFlight :
        RefreshDeliver(p) \/ RemoveResponse(p) \/ FriendDeliver(p)

\* The calendar page with the scheduling the runtime guarantees: a settled
\* promise's continuation runs. Nothing makes the backend answer: the requests
\* carry no timeout and no abort signal.
SpecLive == InitViewer /\ [][ViewerNext]_vars /\ WF_vars(Continuation)

\* The user has just chosen friend f1 in the viewer select: the state that
\* SelectViewer("f1") leaves, the fetch in flight.
InitReentry ==
    /\ user = "u1"
    /\ remote = <<Rec("u1", "c1", 0)>>
    /\ friendRemote \in InitialFriendRemotes
    /\ selectedCourses = Fetch(remote, user)
    /\ isLoading = FALSE
    /\ highlightedCourseId = NoCourse
    /\ selectedViewer = "f1"
    /\ friendCourses = <<>>
    /\ isLoadingCourses = TRUE
    /\ procs = SetToBag({FriendProc("u1", "f1")})
    /\ lastResult = NoResult
    /\ ops = 0
    /\ clean = TRUE
    /\ hist = NoHist

\* A friend changes their own schedule while the user is not looking at it.
FriendEditsInSelf(f) ==
    /\ selectedViewer = Me
    /\ friendRemote' = [friendRemote EXCEPT
                          ![f] = IF friendRemote[f] = <<>>
                                 THEN <<Rec(f, "c1", 0)>> ELSE <<>>]
    /\ UNCHANGED <<user, remote, selectedCourses, isLoading, highlightedCourseId,
                   selectedViewer, friendCourses, isLoadingCourses, procs,
                   lastResult, ops, clean, hist>>

\* Leaving and re-entering the schedule of one friend.
ReentryNext ==
    \/ \E v \in {Me, "f1"} : SelectViewer(v)
    \/ FriendEditsInSelf("f1")
    \/ \E p \in InFlight : ServerFetchFriend(p)
    \/ \E p \in InFlight : FriendDeliver(p)

SpecReentry == InitReentry /\ [][ReentryNext]_vars

\* The section_data the projection is given: time texts built from endpoints,
\* with and without spaces round the dash, and texts that are not ranges; day
\* lists in the forms of the table, with repeats, unknown tokens and none.
HourTexts == {<<"1", "1">>, <<"1", "2">>, <<"2">>, <<"7">>}

MinuteTexts == {<<"4", "0">>, <<"5", "5">>}

MeridiemTexts == {<<"a", "m">>, <<"p", "m">>, <<"P", "M">>}

Endpoints ==
    {Clock(h, m, mer) : h \in HourTexts, m \in MinuteTexts, mer \in MeridiemTexts}

TimeTexts ==
    {Range(a, sep, b) : a \in Endpoints, b \in Endpoints,
                        sep \in {Sp \o Dash \o Sp, Dash}}
    \cup {<<>>,
          <<"T", "B", "A">>,
          <<"g", "a", "r", "b", "a", "g", "e">>,
          Range(Clock(<<"2">>, <<"4", "0">>, <<"p", "m">>), Sp,
                Clock(<<"3">>, <<"5", "5">>, <<"p", "m">>)),
          Range(Clock(<<"2">>, <<"4", "0">>, <<>>), Sp \o Dash \o Sp,
                Clock(<<"3">>, <<"5", "5">>, <<"p", "m">>)),
          Range(Clock(<<"2">>, <<"4", "0">>, <<"p", "m">>), Sp \o Dash \o Sp,
                Clock(<<"3">>, <<"5", "5">>, <<>>)),
          SectionData("c1", 1).time,
          SectionData("c2", 0).time,
          <<"a", "t", " ">> \o SectionData("c1", 1).time \o <<"!">>,
          Range(Clock(<<"1", "3">>, <<"7", "5">>, <<"p", "m">>), Sp \o Dash \o Sp,
                Clock(<<"2">>, <<"4", "0">>, <<"p", "m">>)),
          Range(Clock(<<"1", "1">>, <<"0", "0">>, <<"p", "m">>), Sp \o Dash \o Sp,
                Clock(<<"1">>, <<"0", "0">>, <<"a", "m">>))}

\* Time texts for the lists of two courses.
PairTimeTexts ==
    {<<>>, <<"T", "B", "A">>, SectionData("c1", 0).time, SectionData("c1", 1).time}

DayLists ==
    {<<"M", "W">>, <<"W", "M">>, <<"Tu", "Th">>, <<"M", "Mo">>,
     <<"Monday", "M", "F">>, <<"Q">>, <<"m", "W">>, <<>>, NoDays,
     <<"constructor">>, <<"toString", "W">>}

ProjectCourse(time, days) ==
    [Rec("u1", "c1", 0) EXCEPT !.section_data = TimeSlot(time, days)]

\* The lists the calendar is given: one course with the given section_data,
\* alone, or before or after a second course.
ProjectLists ==
    {<<ProjectCourse(t, d)>> : t \in TimeTexts, d \in DayLists}
    \cup {<<ProjectCourse(t, d), Rec("u1", "c2", 0)>> :
             t \in PairTimeTexts, d \in DayLists}
    \cup {<<Rec("u1", "c2", 0), ProjectCourse(t, d)>> :
             t \in PairTimeTexts, d \in DayLists}

\* The calendar page of user u1, on Self, with one of these lists loaded.
InitProject ==
    /\ user = "u1"
    /\ selectedCourses \in ProjectLists
    /\ remote = selectedCourses
    /\ friendRemote = [f \in Friends |-> <<>>]
    /\ isLoading = FALSE
    /\ highlightedCourseId = NoCourse
    /\ selectedViewer = Me
    /\ friendCourses = <<>>
    /\ isLoadingCourses = FALSE
    /\ procs = EmptyBag
    /\ lastResult = NoResult
    /\ ops = 0
    /\ clean = TRUE
    /\ hist = NoHist

\* The grid is drawn from events; an event drawn can be clicked.
ProjectNext == \E c \in Courses : HandleEventClick(c)

SpecProject == InitProject /\ [][ProjectNext]_vars

\* ------------------------------------------------------------------ claims
\* The operation p leaves the await point it is at in this step.
Leaves(p) == CopiesIn(p, procs') < CopiesIn(p, procs)

SameKey(r, q) ==
    /\ r.user_id = q.user_id
    /\ r.course_id = q.course_id
    /\ r.section_index = q.section_index

Count(list, r) == Cardinality({k \in 1..Len(list) : SameKey(list[k], r)})

IsRefresh(p) == p.kind \in {"load", "add", "remove"} /\ p.pc = "fetched"

\* C1: in every reachable state of the store no two records of selectedCourses
\* share (user_id, course_id, section_index).
C1_NoDuplicateSelections ==
    \A i, j \in 1..Len(selectedCourses) :
        i # j => ~SameKey(selectedCourses[i], selectedCourses[j])

C1_Witness ==
    /\ user # NoUser
    /\ Len(selectedCourses) >= 3
    /\ lastResult.op = "add"
    /\ lastResult.res = "resolved"

\* C2: an add never changes the list locally: neither the create nor its answer
\* touches selectedCourses, the reload is sent if and only if the create
\* succeeded, and when the add resolves after a successful reload the list is
\* that reload's snapshot, all of it records of the add's user.
C2_AddResyncsFromRemote ==
    [][\A p \in InFlight :
         p.kind = "add" =>
           /\ (p.pc = "creating" /\ Leaves(p)) =>
                 selectedCourses' = selectedCourses
           /\ (p.pc = "created" /\ Leaves(p)) =>
                 /\ selectedCourses' = selectedCourses
                 /\ (p.res = "ok") <=>
                       (procs' = Step(procs, p, [p EXCEPT !.pc = "fetching"]))
           /\ (p.pc = "fetched" /\ p.res = "ok" /\ Leaves(p)) =>
                 /\ selectedCourses' = p.snap
                 /\ \A k \in 1..Len(selectedCourses') :
                       selectedCourses'[k].user_id = p.uid
                 /\ lastResult'.op = "add"
                 /\ lastResult'.res = "resolved"]_vars

C2_Witness ==
    /\ clean
    /\ user # NoUser
    /\ lastResult = [op |-> "add", res |-> "resolved", logged |-> ""]
    /\ selectedCourses = <<Rec(user, "c2", 0)>>
    /\ remote = selectedCourses

C4_LoadReplacesList ==
    [][\A p \in InFlight :
         (IsRefresh(p) /\ p.res = "ok" /\ p.uid = user /\ Leaves(p)) =>
           /\ selectedCourses' = p.snap
           /\ \A k \in 1..Len(selectedCourses') :
                 selectedCourses'[k].user_id = user]_vars

C4_Witness ==
    /\ user # NoUser
    /\ lastResult = [op |-> "load", res |-> "resolved", logged |-> ""]
    /\ selectedCourses # <<>>
    /\ selectedCourses = Fetch(remote, user)
    /\ ops > 0

\* C5, as claimed: when a load fails the list is left as it was and the caller
\* of the load is told of the failure.
C5_LoadFailureSurfaced ==
    [][\A p \in InFlight :
         (p.kind = "load" /\ p.pc = "fetched" /\ p.res # "ok" /\ Leaves(p)) =>
           /\ selectedCourses' = selectedCourses
           /\ lastResult'.op = "load"
           /\ lastResult'.res # "resolved"]_vars

\* C6: a remove called twice in a row with the same arguments leaves the remote
\* store and the list as the first call left them, and the second call
\* completes without an error.
C6_RemoveTwiceSameAsOnce ==
    hist.stage = "after2" =>
        /\ remote = hist.remote
        /\ selectedCourses = hist.list
        /\ hist.res = "resolved"

C6_Witness ==
    /\ hist.stage = "after2"
    /\ hist.idx # Omitted
    /\ Len(hist.list) = 1
    /\ lastResult = [op |-> "remove", res |-> "resolved", logged |-> ""]

\* C7, as claimed: the response of a load issued for an identity that is no
\* longer the current one is discarded, so that the list holds only records
\* of the current identity.
C7_StaleLoadDiscarded ==
    [][\A p \in InFlight :
         (IsRefresh(p) /\ p.uid # user /\ Leaves(p)) =>
           /\ selectedCourses' = selectedCourses
           /\ \A k \in 1..Len(selectedCourses') :
                 selectedCourses'[k].user_id = user']_vars

\* C8, as claimed: the response of a friend fetch issued for a viewer that is
\* no longer the selected one is discarded.
C8_StaleFetchDiscarded ==
    [][\A p \in InFlight :
         (p.kind = "friend" /\ p.pc = "fetched" /\ p.cid # selectedViewer
            /\ Leaves(p)) =>
           friendCourses' = friendCourses]_vars

\* C9, as claimed: once the mutations of a user that were in flight together
\* have all completed, none of them failed, the list equals the remote content
\* of that user.
C9_ReadAfterWrite ==
    (clean /\ procs = EmptyBag /\ user # NoUser) =>
        selectedCourses = Fetch(remote, user)

\* C10, as claimed: while a friend's schedule is displayed no add and no remove
\* starts.
C10_NoMutationWhileViewing ==
    [][isViewingFriend =>
         \A q \in BagToSet(procs') :
            (q.kind \in {"add", "remove"} /\ q.pc \in {"creating", "deleting"}) =>
               CopiesIn(q, procs') <= CopiesIn(q, procs)]_vars

\* A step of the Viewer Selector: the viewer changes, or a friend fetch is
\* answered or delivered.
ViewerStep ==
    \/ selectedViewer' # selectedViewer
    \/ \E p \in InFlight : p.kind = "friend" /\ Leaves(p)

\* C11: no step of the Viewer Selector (entering Viewing, the friend fetch
\* succeeding or failing, returning to Self) changes the store's list or the
\* remote selections; what the calendar shows is the store's list in Self and
\* the friend list in Viewing, never a merge.
C11_ViewerNeverWritesStore ==
    [][ViewerStep =>
         /\ selectedCourses' = selectedCourses
         /\ remote' = remote
         /\ displayCourses' =
               IF selectedViewer' = Me THEN selectedCourses ELSE friendCourses']_vars

C11_Witness ==
    /\ user = "u1"
    /\ selectedViewer = Me
    /\ ops = 2
    /\ lastResult = [op |-> "friend", res |-> "resolved", logged |-> ""]
    /\ friendCourses = <<>>
    /\ friendRemote["f1"] # <<>>
    /\ procs = EmptyBag
    /\ selectedCourses = Fetch(remote, user)
    /\ displayCourses = selectedCourses
    /\ Len(selectedCourses) = 2

\* C12, as claimed: when the fetch made on entering Viewing(id) fails, the mode
\* stays Viewing(id), the displayed list is empty, and the page shows an error
\* indicator: its status is not the one shown for a friend whose schedule was
\* fetched and is empty.
C12_FetchFailureIndicated ==
    [][\A p \in InFlight :
         (p.kind = "friend" /\ p.pc = "fetched" /\ p.res # "ok"
            /\ p.cid = selectedViewer /\ Leaves(p)) =>
           /\ selectedViewer' = p.cid
           /\ displayCourses' = <<>>
           /\ viewerStatus' # "Friend's Schedule"]_vars

\* C13: when the remote create of an add, or the remote delete of a remove,
\* fails, the operation rejects for its caller, no reload is issued and the
\* list is left as it was.
C13_MutationFailurePropagates ==
    [][\A p \in InFlight :
         (p.kind \in {"add", "remove"} /\ p.pc \in {"created", "deleted"}
            /\ p.res # "ok" /\ Leaves(p)) =>
           /\ procs' = Finish(procs, p)
           /\ lastResult'.op = p.kind
           /\ lastResult'.res # "resolved"
           /\ lastResult'.logged # ""
           /\ selectedCourses' = selectedCourses]_vars

C13_Witness ==
    /\ user = "u1"
    /\ lastResult = [op |-> "remove", res |-> "TransientIO",
                     logged |-> "Failed to remove course:"]
    /\ procs = EmptyBag
    /\ Len(selectedCourses) = 2
    /\ selectedCourses = Fetch(remote, user)

\* C14: when the create of an add or the delete of a remove succeeded and the
\* reload that follows fails, the add or remove completes without an error for
\* its caller, the failure is logged, and the list keeps the content it had
\* before the reload.
C14_ReloadFailureSwallowed ==
    [][\A p \in InFlight :
         (p.kind \in {"add", "remove"} /\ p.pc = "fetched" /\ p.res # "ok"
            /\ Leaves(p)) =>
           /\ procs' = Finish(procs, p)
           /\ lastResult' = [op |-> p.kind, res |-> "resolved",
                             logged |-> "Failed to fetch selected courses:"]
           /\ selectedCourses' = selectedCourses]_vars

C14_Witness ==
    /\ user = "u1"
    /\ lastResult = [op |-> "add", res |-> "resolved",
                     logged |-> "Failed to fetch selected courses:"]
    /\ procs = EmptyBag
    /\ Exists(remote, "u1", "c2", 0)
    /\ Count(selectedCourses, Rec("u1", "c2", 0)) = 0

AllRecs == {Rec(u, c, i) : u \in Users, c \in Courses, i \in SectionIndexes}

Matches(r, u, c, idx) ==
    /\ r.user_id = u
    /\ r.course_id = c
    /\ (idx = Omitted \/ r.section_index = idx)

\* C15: a remove called with (course, index) sends a delete of that user's
\* record (course, index), a remove called without an index a delete of all
\* that user's records of the course; the delete removes from the remote store
\* the records it names and no other; and a delete that succeeded is followed
\* by a reload.
C15_RemoveOneOrAllThenReload ==
    [][/\ (hist'.stage = "first" /\ procs = EmptyBag) =>
             procs' = SetToBag({[Idle EXCEPT !.kind = "remove", !.pc = "deleting",
                                             !.uid = user, !.cid = hist'.cid,
                                             !.idx = hist'.idx]})
       /\ \A p \in InFlight :
             p.kind = "remove" =>
               /\ (p.pc = "deleting" /\ Leaves(p)
                     /\ procs' = Step(procs, p, [p EXCEPT !.pc = "deleted",
                                                          !.res = "ok"])) =>
                     \A r \in AllRecs :
                        Count(remote', r) =
                           IF Matches(r, p.uid, p.cid, p.idx) THEN 0
                           ELSE Count(remote, r)
               /\ (p.pc = "deleted" /\ p.res = "ok" /\ Leaves(p)) =>
                     procs' = Step(procs, p, [p EXCEPT !.pc = "fetching"])]_vars

C15_Witness ==
    /\ user = "u1"
    /\ lastResult = [op |-> "remove", res |-> "resolved", logged |-> ""]
    /\ procs = EmptyBag
    /\ remote = <<Rec("u2", "c1", 0), Rec("u1", "c2", 0)>>
    /\ selectedCourses = <<Rec("u1", "c2", 0)>>

\* C16, as claimed: whenever no user is signed in the store's list is the empty
\* list: it is empty at the start, and after a sign-out it becomes and stays
\* empty.
C16_EmptyWhenSignedOut ==
    user = NoUser => selectedCourses = <<>>

\* C17, as claimed: once the viewer is back on Self the cached friend list is
\* empty, and it stays empty for as long as the viewer is Self.
C17_FriendListEmptyInSelf ==
    selectedViewer = Me => friendCourses = <<>>

\* C18, as claimed: every entry into Viewing(id) fetches anew and no list
\* fetched in an earlier viewing session is used, so once the fetches have
\* settled the list shown for the friend is the friend's remote list as it is
\* since the entry, a change made while the viewer was on Self included.
C18_ReentryShowsRefetchedList ==
    (/\ selectedViewer # Me
     /\ procs = EmptyBag
     /\ friendCourses # <<>>) =>
        friendCourses = friendRemote[selectedViewer]

\* C19: a highlight changes the highlighted-course pointer and nothing else: it
\* starts no request and leaves the store's list, the remote selections, the
\* viewer and the friend list as they are, in Self and in Viewing alike.
C19_HighlightOnlySetsPointer ==
    [][highlightedCourseId' # highlightedCourseId =>
         /\ selectedCourses' = selectedCourses
         /\ procs' = procs
         /\ remote' = remote
         /\ friendRemote' = friendRemote
         /\ UNCHANGED <<user, selectedViewer, friendCourses, isLoading,
                        isLoadingCourses>>]_vars

C19_Witness ==
    /\ isViewingFriend
    /\ highlightedCourseId = "c1"
    /\ friendCourses = <<Rec(selectedViewer, "c1", 0)>>
    /\ Len(selectedCourses) = 2
    /\ procs = EmptyBag

\* The canonical days the tokens of a day list map to.
CanonicalDays(days) ==
    IF days = NoDays THEN {}
    ELSE {DAY_MAP[days[k]] : k \in {n \in 1..Len(days) : days[n] \in DOMAIN DAY_MAP}}

BoxesOf(course, day) ==
    {k \in 1..Len(overlay) : overlay[k].course = course /\ overlay[k].day = day}

\* C20, as claimed: for every displayed section whose time text parses, and for
\* each canonical day its tokens map to, exactly one event is drawn, at
\* (startHour - 7) * 60 + startMinute with the duration end - start in minutes,
\* and no event on any other day; days ["M", "W"] with "11:40am - 12:55pm" give
\* two events, MON and WED, at 280 for 75.
C20_OneEventPerCanonicalDay ==
    \A n \in 1..Len(displayCourses) :
        LET course == displayCourses[n]
            section == course.section_data
            timeInfo == parseTime(section.time)
        IN  (section.time # <<>> /\ timeInfo # NoTime) =>
              /\ \A d \in CanonicalDays(section.days) :
                    /\ Cardinality(BoxesOf(course, d)) = 1
                    /\ \A k \in BoxesOf(course, d) :
                          /\ overlay[k].startOffset =
                                (timeInfo.startHour - 7) * 60 + timeInfo.startMinute
                          /\ overlay[k].duration =
                                (timeInfo.endHour * 60 + timeInfo.endMinute)
                                - (timeInfo.startHour * 60 + timeInfo.startMinute)
              /\ \A k \in 1..Len(overlay) :
                    overlay[k].course = course =>
                       overlay[k].day \in CanonicalDays(section.days)
              /\ section = SectionData("c1", 0) =>
                    LET own == {k \in 1..Len(overlay) : overlay[k].course = course}
                    IN  /\ Cardinality(own) = 2
                        /\ {<<overlay[k].day, overlay[k].startOffset,
                               overlay[k].duration>> : k \in own}
                              = {<<"MON", 280, 75>>, <<"WED", 280, 75>>}

\* A section the projection can use: it has a time text that parses and at
\* least one day token of the table.
Usable(course) ==
    /\ course.section_data.time # <<>>
    /\ parseTime(course.section_data.time) # NoTime
    /\ CanonicalDays(course.section_data.days) # {}

EventsFor(course) == {k \in 1..Len(events) : events[k].course = course}

\* C21, as claimed: a displayed section whose time text does not parse, or whose
\* day tokens yield no canonical day, has no event in the projection, and every
\* other section of the list still has its events.
C21_UnusableSectionContributesNothing ==
    \A n \in 1..Len(displayCourses) :
        IF Usable(displayCourses[n])
        THEN EventsFor(displayCourses[n]) # {}
        ELSE EventsFor(displayCourses[n]) = {}

\* The seven canonical buckets.
Buckets == {DAYS[k] : k \in 1..Len(DAYS)}

\* C22, as claimed: for the day tokens of every displayed section, parseDays
\* returns only canonical buckets, no bucket more than once, exactly the buckets
\* of the tokens that are in the table (so every other token is dropped), and
\* the table maps T to TUE, Th and R to THU, S to SAT and Su to SUN.
C22_ParseDaysIsSetOfBuckets ==
    /\ DayLookup("T") = "TUE" /\ DayLookup("Th") = "THU"
    /\ DayLookup("R") = "THU" /\ DayLookup("S") = "SAT"
    /\ DayLookup("Su") = "SUN"
    /\ \A n \in 1..Len(displayCourses) :
          LET tokens == displayCourses[n].section_data.days
              result == parseDays(tokens)
          IN  tokens # NoDays =>
                /\ \A k \in 1..Len(result) : result[k] \in Buckets
                /\ \A j, k \in 1..Len(result) : result[j] = result[k] => j = k
                /\ {result[k] : k \in 1..Len(result)} = CanonicalDays(tokens)

\* The number an hour or minute text of the inputs denotes.
NumberOf(text) ==
    IF Len(text) = 1 THEN DigitValue(text[1])
    ELSE 10 * DigitValue(text[1]) + DigitValue(text[2])

\* The rule as the claim states it, for a 12-hour endpoint.
ClaimedHour(hour, isPm) ==
    IF hour = 12 THEN (IF isPm THEN 12 ELSE 0)
    ELSE IF isPm THEN hour + 12 ELSE hour

IsPm(mer) == mer \in {<<"p", "m">>, <<"P", "M">>}

\* C23: for every displayed section whose time text is a range of two 12-hour
\* endpoints, parseTime gives each endpoint's hour by the rule 12am -> 0,
\* 12pm -> 12, other pm -> hour + 12, other am -> hour, and keeps the minutes;
\* "10:10am - 12:40pm" gives 10:10 to 12:40 and "2:40pm - 3:55pm" gives 14:40
\* to 15:55.
C23_TwelveHourConversion ==
    \A n \in 1..Len(displayCourses) :
        LET text == displayCourses[n].section_data.time
        IN  /\ \A h1 \in HourTexts, m1 \in MinuteTexts, e1 \in MeridiemTexts,
                  h2 \in HourTexts, m2 \in MinuteTexts, e2 \in MeridiemTexts,
                  sep \in {Sp \o Dash \o Sp, Dash} :
                  text = Range(Clock(h1, m1, e1), sep, Clock(h2, m2, e2)) =>
                     parseTime(text) =
                        [startHour |-> ClaimedHour(NumberOf(h1), IsPm(e1)),
                         startMinute |-> NumberOf(m1),
                         endHour |-> ClaimedHour(NumberOf(h2), IsPm(e2)),
                         endMinute |-> NumberOf(m2)]
            /\ text = <<"1", "0", ":", "1", "0", "a", "m", " ", "-", " ",
                        "1", "2", ":", "4", "0", "p", "m">> =>
                  parseTime(text) = [startHour |-> 10, startMinute |-> 10,
                                     endHour |-> 12, endMinute |-> 40]
            /\ text = <<"2", ":", "4", "0", "p", "m", " ", "-", " ",
                        "3", ":", "5", "5", "p", "m">> =>
                  parseTime(text) = [startHour |-> 14, startMinute |-> 40,
                                     endHour |-> 15, endMinute |-> 55]

\* C23 witness: the section "12:40am - 7:55pm" is displayed and its event,
\* from 0:40 to 19:55, has been clicked.
C23_Witness ==
    /\ Len(displayCourses) = 1
    /\ displayCourses[1].section_data.time =
          <<"1", "2", ":", "4", "0", "a", "m", " ", "-", " ",
            "7", ":", "5", "5", "p", "m">>
    /\ Len(events) > 0
    /\ events[1].startHour = 0 /\ events[1].startMinute = 40
    /\ events[1].endHour = 19 /\ events[1].endMinute = 55
    /\ highlightedCourseId = displayCourses[1].course_id

\* The whole text is a range H:MM(am|pm) - H:MM(am|pm), spaces allowed around
\* it and around the dash, either case of the meridiem.
WholeRange(text) ==
    LET m == MatchAt(text, SkipSpace(text, 1))
    IN  m.ok /\ SkipSpace(text, m.end.next) = Len(text) + 1

\* The texts the claim names: no dash, no first meridiem, no second meridiem,
\* and "garbage".
NamedNonRanges ==
    {Range(Clock(<<"2">>, <<"4", "0">>, <<"p", "m">>), Sp,
           Clock(<<"3">>, <<"5", "5">>, <<"p", "m">>)),
     Range(Clock(<<"2">>, <<"4", "0">>, <<>>), Sp \o Dash \o Sp,
           Clock(<<"3">>, <<"5", "5">>, <<"p", "m">>)),
     Range(Clock(<<"2">>, <<"4", "0">>, <<"p", "m">>), Sp \o Dash \o Sp,
           Clock(<<"3">>, <<"5", "5">>, <<>>)),
     <<"g", "a", "r", "b", "a", "g", "e">>}

\* C24, as claimed: for every displayed section whose time text is not, as a
\* whole, a range H:MM(am|pm) - H:MM(am|pm), parseTime returns null; in
\* particular for a text without the dash, without either meridiem, and for
\* "garbage".
C24_NoneUnlessRange ==
    \A n \in 1..Len(displayCourses) :
        LET text == displayCourses[n].section_data.time
        IN  /\ ~WholeRange(text) => parseTime(text) = NoTime
            /\ text \in NamedNonRanges => parseTime(text) = NoTime

\* The rows of a response whose section_data can be decoded.
Decodable(row) ==
    ~(IsString(row.section_data) /\ JsonParseThrows(row.section_data))

\* C25, as claimed: when the answer of a load arrives and was ok, the load
\* succeeds (nothing is logged, the list is the one of the answer) although a
\* row's section_data cannot be decoded: every row that can be decoded is in
\* the list, decoded, and no event is projected for a row that cannot.
C25_UndecodableRowDoesNotFailLoad ==
    [][\A p \in InFlight :
          (IsRefresh(p) /\ p.res = "ok" /\ procs' = Finish(procs, p)) =>
             /\ lastResult'.logged = ""
             /\ Len(selectedCourses') = Len(p.snap)
             /\ \A k \in 1..Len(p.snap) :
                   IF Decodable(p.snap[k])
                   THEN \E j \in 1..Len(selectedCourses') :
                           /\ selectedCourses'[j] = getSelectedCourses(<<p.snap[k]>>)[1]
                           /\ \E e \in 1..Len(events') :
                                 events'[e].course = selectedCourses'[j]
                   ELSE \A j \in 1..Len(events') :
                           ~SameKey(events'[j].course, p.snap[k])]_vars

\* The place of a course in the displayed list.
PlaceOf(course) ==
    CHOOSE n \in 1..Len(displayCourses) :
        /\ displayCourses[n] = course
        /\ \A m \in 1..Len(displayCourses) : displayCourses[m] = course => n <= m

\* C26, as claimed: the events are in the order of their sections in the
\* displayed list, and the events of one section are in ascending order of
\* the day of the week (SUN first, SAT last), whatever the order of the
\* section's day tokens.
C26_StableOrder ==
    \A j, k \in 1..Len(events) :
        j < k =>
           /\ PlaceOf(events[j].course) <= PlaceOf(events[k].course)
           /\ events[j].course = events[k].course =>
                 DayIndex(events[j].day) <= DayIndex(events[k].day)

\* C27, as claimed: whenever the store's loading flag is true it eventually
\* becomes false, and whenever the viewer's loading flag is true it eventually
\* becomes false, even if the backend never answers.
C27_LoadingFlagsEventuallyFalse ==
    /\ isLoading ~> ~isLoading
    /\ isLoadingCourses ~> ~isLoadingCourses

\* C28, as claimed: while a friend is viewed, the list given to the calendar is
\* empty or holds only that friend's selections; so after a switch from one
\* friend to another the first friend's sections are not displayed while the
\* second friend's fetch is pending.
C28_ViewedListBelongsToViewedFriend ==
    isViewingFriend =>
        \A k \in 1..Len(displayCourses) :
            displayCourses[k].user_id = selectedViewer

\* C29, as claimed: every event of the projection has its start and end hour
\* in 0..23 and its minutes in 0..59, and every box drawn has a duration of
\* at least one minute, whatever time text parseTime accepted.
C29_WellFormedInterval ==
    /\ \A k \in 1..Len(events) :
          /\ events[k].startHour \in 0..23
          /\ events[k].endHour \in 0..23
          /\ events[k].startMinute \in 0..59
          /\ events[k].endMinute \in 0..59
    /\ \A k \in 1..Len(overlay) : overlay[k].duration > 0

\* C30: every call of addCourse or removeCourse made while nobody is signed in
\* starts no operation (no request, no reload), leaves the list, the backend
\* and the loading flag as they were, and resolves with nothing logged.
C30_SignedOutMutationsAreNoOps ==
    [][(/\ user = NoUser
        /\ \/ \E c \in Courses, i \in SectionIndexes : AddCourse(c, i)
           \/ \E c \in Courses, idx \in SectionIndexes \cup {Omitted} :
                 RemoveCourse(c, idx))
       => /\ procs' = procs
          /\ selectedCourses' = selectedCourses
          /\ remote' = remote
          /\ isLoading' = isLoading
          /\ lastResult'.op \in {"add", "remove"}
          /\ lastResult'.res = "resolved"
          /\ lastResult'.logged = ""]_vars

\* C30 witness: nobody is signed in, the backend holds selections, addCourse was
\* called and resolved, and nothing is in flight.
C30_Witness ==
    /\ user = NoUser
    /\ remote # <<>>
    /\ ops >= 1
    /\ lastResult = [op |-> "add", res |-> "resolved", logged |-> ""]
    /\ selectedCourses = <<>>
    /\ procs = EmptyBag

====
